---- MODULE Spec2Model ----
(***************************************************************************)
(* Model of the trmnl-apis service:                                        *)
(*   - the two-tier TTL cache (class Cache of services/weatherService.ts), *)
(*   - the recycling-week calculator (services/recyclingService.ts),       *)
(*   - the bearer-token middleware (middleware/auth.ts),                   *)
(*   - the forecast's condition mapping (getMostSignificantWeather),       *)
(*   - the Express application (api.ts): the middleware stack, and the     *)
(*     dashboard route with getWeatherData under concurrent requests.      *)
(* Each part has its own specification over the shared variable list; the  *)
(* variables of the other parts are held at their initial values.          *)
(***************************************************************************)
EXTENDS Integers, Sequences, FiniteSets, TLC

VARIABLES
    clock,        \* Date.now(), in abstract time units
    memoryCache,  \* Cache.#memoryCache : key -> JS value held by the Map
    blobs,        \* the Netlify blob store "weather-cache" : key -> JSON document
    durableDown,  \* TRUE: the durable tier fails on every operation of this run
    pc,           \* per caller: where its pending async call is suspended
    frame,        \* per caller: the locals of its pending call
    resp,         \* what the step just taken returned to a caller (NoResp if nothing)
    lastSet,      \* history: per key, the most recent Cache.set invocation
    hourCycle,    \* how the runtime's Intl.DateTimeFormat resolves hour12: false
    rcCall,       \* the arguments of the latest getRecyclingInfo call (local moment, config)
    rcResult,     \* what that call returned
    rcPrev,       \* the call made before it, with its result (for calls n weeks apart)
    apiKeyEnv,    \* process.env.API_KEY
    request,      \* the request the middleware is given: its Authorization header
    authOut,      \* what validateApiKey did with it
    weatherIds,   \* the condition ids of today's forecast (data.daily[0].weather[i].id)
    weather,      \* the condition getWeatherDataFromAPI reports for them
    env,          \* process.env: NODE_ENV, OPENWEATHER_API_KEY, LATITUDE / LONGITUDE
    apc,          \* per request: where its dashboard handler is suspended
    call,         \* per request: the locals of its getWeatherData call, with history
    out,          \* the HTTP response sent by the step just taken (NoOut if none)
    lastOk        \* history: the latest getWeatherData call that returned data

cacheVars == <<clock, memoryCache, blobs, durableDown, pc, frame, resp, lastSet>>

recyclingVars == <<hourCycle, rcCall, rcResult, rcPrev>>

authVars == <<apiKeyEnv, request, authOut>>

forecastVars == <<weatherIds, weather>>

appVars == <<env, apc, call, out, lastOk>>

notCacheVars == <<recyclingVars, authVars, forecastVars, appVars>>

notRecyclingVars == <<cacheVars, authVars, forecastVars, appVars>>

notAuthVars == <<cacheVars, recyclingVars, forecastVars, appVars>>

notForecastVars == <<cacheVars, recyclingVars, authVars, appVars>>

\* what a step of the application leaves alone
notAppVars == <<pc, frame, resp, recyclingVars, authVars, forecastVars>>

vars == <<clock, memoryCache, blobs, durableDown, pc, frame, resp, lastSet,
          hourCycle, rcCall, rcResult, rcPrev, apiKeyEnv, request, authOut,
          weatherIds, weather, env, apc, call, out, lastOk>>

(***************************************************************************)
(* Bounds of the cache model.                                              *)
(***************************************************************************)
MaxClock == 3
ttl == 2

Procs == {"r1", "r2"}
Keys == {"k1"}
Values == {"v1", "v2"}
Times == 0..MaxClock

(***************************************************************************)
(* JavaScript values as the cache sees them.  Null stands for both null    *)
(* and undefined (the code only ever tests them with == null / != null).   *)
(***************************************************************************)
Null == "null"

JsUndefined ==
    [type |-> "undefined", cachedAtType |-> "undefined", cachedAt |-> 0, value |-> Null]

JsString ==
    [type |-> "string", cachedAtType |-> "undefined", cachedAt |-> 0, value |-> Null]

JsObject(cachedAtType, cachedAt, value) ==
    [type |-> "object", cachedAtType |-> cachedAtType, cachedAt |-> cachedAt, value |-> value]

\* { cachedAt: now, value } as built by #setLocalCache and #setNetlify
Cached(value, now) == JsObject("number", now, value)

(***************************************************************************)
(* JSON documents held by the blob store.  setJSON stringifies, and        *)
(* get(key, {type: "json"}) parses; a property whose value is undefined is *)
(* dropped by JSON.stringify and reads back as undefined.                  *)
(***************************************************************************)
NoBlob == [json |-> "none", fields |-> {}, num |-> 0, str |-> Null]

JsonStringify(x) ==
    IF x.type = "string" THEN [json |-> "string", fields |-> {}, num |-> 0, str |-> Null]
    ELSE [json   |-> "object",
          fields |-> (IF x.cachedAtType = "undefined" THEN {} ELSE {"cachedAt:" \o x.cachedAtType})
                     \cup (IF x.value = Null THEN {} ELSE {"value"}),
          num    |-> IF x.cachedAtType = "number" THEN x.cachedAt ELSE 0,
          str    |-> x.value]

JsonParse(doc) ==
    IF doc.json = "none" THEN JsUndefined
    ELSE IF doc.json = "string" THEN JsString
    ELSE JsObject(IF "cachedAt:number" \in doc.fields THEN "number"
                  ELSE IF "cachedAt:string" \in doc.fields THEN "string"
                  ELSE "undefined",
                  IF "cachedAt:number" \in doc.fields THEN doc.num ELSE 0,
                  IF "value" \in doc.fields THEN doc.str ELSE Null)

(***************************************************************************)
(* isCached (weatherService.ts:292-297)                                    *)
(***************************************************************************)
isCached(x) ==
    IF x.type = "undefined" \/ x.type # "object" THEN FALSE
    ELSE x.cachedAtType = "number" /\ x.value # Null

(***************************************************************************)
(* Cache.#getLocalCache (weatherService.ts:367-389), evaluated at Date.now *)
(* = clock.  Returns the value or Null.                                    *)
(***************************************************************************)
\* Mutants of #getLocalCache: the age test reversed; the age test off by one;
\* the local tier never answering.
getLocalCache_Reversed(key) ==
    LET result == memoryCache[key]
        age == clock - result.cachedAt
    IN  IF result.type = "undefined" THEN Null
        ELSE IF age < ttl THEN Null
        ELSE result.value

getLocalCache_Late(key) ==
    LET result == memoryCache[key]
        age == clock - result.cachedAt
    IN  IF result.type = "undefined" THEN Null
        ELSE IF age > ttl THEN Null
        ELSE result.value

getLocalCache_Skip(key) == Null

getLocalCache(key) ==
    LET result == memoryCache[key]
        age == clock - result.cachedAt
    IN  IF result.type = "undefined" THEN Null
        ELSE IF ~isCached(result) THEN Null
        ELSE IF age >= ttl THEN Null
        ELSE result.value

\* Mutant of #setLocalCache: the local write is lost.
setLocalCache_Lost(key, value, now) == memoryCache

\* Mutant: the local entry gets a timestamp of its own, later than the one
\* handed to the durable write.
setLocalCache_OwnStamp(key, value, now) ==
    [memoryCache EXCEPT ![key] = Cached(value, now + 1)]

\* Cache.#setLocalCache (weatherService.ts:391-393): the Map after the write
setLocalCache(key, value, now) ==
    [memoryCache EXCEPT ![key] = Cached(value, now)]

(***************************************************************************)
(* Cache.#getNetlify after `await store.get(key, {type: "json"})` has      *)
(* resolved with `result` (weatherService.ts:327-347).                     *)
(***************************************************************************)
getNetlifyResult(result) ==
    LET age == clock - result.cachedAt
    IN  IF result.type = "undefined" THEN Null
        ELSE IF ~isCached(result) THEN Null
        ELSE IF age >= ttl THEN Null
        ELSE result.value

\* Mutant: the envelope is stamped when the durable write is applied.
setNetlifyDoc_Restamped(value, now) == JsonStringify(Cached(value, clock))

\* The envelope #setNetlify hands to store.setJSON (weatherService.ts:360)
setNetlifyDoc(value, now) == JsonStringify(Cached(value, now))

(***************************************************************************)
(* The catch blocks of #getNetlify and #setNetlify: what the call does     *)
(* when getStore throws or the store operation rejects.  threw = TRUE      *)
(* would mean the error leaves the method and rejects Cache.get/Cache.set. *)
(***************************************************************************)
getNetlifyOnGetStoreError == [result |-> Null, threw |-> FALSE]

\* Mutant: the read error is rethrown instead of swallowed.
getNetlifyOnReadError_Rethrow == [result |-> Null, threw |-> TRUE]

getNetlifyOnReadError == [result |-> Null, threw |-> FALSE]

setNetlifyOnGetStoreError == [threw |-> FALSE]

setNetlifyOnWriteError == [threw |-> FALSE]

\* getStore(this.#cacheName): returns a store or throws (no Netlify context)
GetStoreOutcomes == {"store", "throws"}

(***************************************************************************)
(* Bookkeeping records.  A frame holds the locals of a suspended call      *)
(* (key, value, now) and, as history, what the caller saw when it called.  *)
(***************************************************************************)
NoSet == [called |-> FALSE, at |-> 0, value |-> Null]

NoFrame ==
    [key |-> "none", value |-> Null, now |-> 0,
     calledAt |-> 0, localSeen |-> JsUndefined, lastSetSeen |-> NoSet]

NoResp ==
    [op |-> "none", proc |-> "none", key |-> "none", value |-> Null, result |-> Null,
     threw |-> FALSE, src |-> "none", calledAt |-> 0, checkedAt |-> 0,
     localSeen |-> JsUndefined, lastSetSeen |-> NoSet,
     asked |-> FALSE, failed |-> FALSE, docSeen |-> NoBlob]

\* The response of a completed Cache.get
GetResp(p, k, result, threw, src, calledAt, localSeen, lastSetSeen, asked, failed, docSeen) ==
    [op |-> "get", proc |-> p, key |-> k, value |-> Null, result |-> result,
     threw |-> threw, src |-> src, calledAt |-> calledAt, checkedAt |-> clock,
     localSeen |-> localSeen, lastSetSeen |-> lastSetSeen,
     asked |-> asked, failed |-> failed, docSeen |-> docSeen]

\* The response of a completed Cache.set
SetResp(p, k, v, now, threw, failed) ==
    [op |-> "set", proc |-> p, key |-> k, value |-> v, result |-> Null,
     threw |-> threw, src |-> "none", calledAt |-> now, checkedAt |-> clock,
     localSeen |-> JsUndefined, lastSetSeen |-> NoSet,
     asked |-> TRUE, failed |-> failed, docSeen |-> NoBlob]

(***************************************************************************)
(* Documents another instance (or anything else with access to the store)  *)
(* may have left under a key: well-formed envelopes of any age, and        *)
(* objects that are not {cachedAt: number, value: non-null} envelopes.     *)
(***************************************************************************)
MalformedDocs ==
    { JsonStringify(JsString),
      JsonStringify(JsObject("undefined", 0, "v1")),
      JsonStringify(JsObject("string", 0, "v1")),
      JsonStringify(JsObject("number", 0, Null)) }

ForeignDocs ==
    { setNetlifyDoc(v, t) : v \in Values, t \in Times } \cup MalformedDocs

CacheInit ==
    /\ clock = 0
    /\ memoryCache = [k \in Keys |-> JsUndefined]
    /\ blobs = [k \in Keys |-> NoBlob]
    /\ durableDown \in BOOLEAN
    /\ pc = [p \in Procs |-> "idle"]
    /\ frame = [p \in Procs |-> NoFrame]
    /\ resp = NoResp
    /\ lastSet = [k \in Keys |-> NoSet]

\* Time passes.
Tick ==
    /\ clock < MaxClock
    /\ clock' = clock + 1
    /\ resp' = NoResp
    /\ UNCHANGED <<memoryCache, blobs, durableDown, pc, frame, lastSet>>
    /\ UNCHANGED notCacheVars

(***************************************************************************)
(* Cache.set(key, value) up to its first suspension (weatherService.ts     *)
(* 400-404 and 350-358): read the clock, write the local tier, then        *)
(* #setNetlify calls getStore; if that throws the call is over, otherwise   *)
(* it is suspended on `await store.setJSON(...)`.                          *)
(***************************************************************************)
SetCall(p, k, v) ==
    /\ pc[p] = "idle"
    /\ LET now == clock IN
       /\ memoryCache' = setLocalCache(k, v, now)
       /\ lastSet' = [lastSet EXCEPT ![k] = [called |-> TRUE, at |-> clock, value |-> v]]
       /\ \E o \in GetStoreOutcomes :
            IF o = "throws"
            THEN /\ resp' = SetResp(p, k, v, now, setNetlifyOnGetStoreError.threw, TRUE)
                 /\ UNCHANGED <<pc, frame>>
            ELSE /\ pc' = [pc EXCEPT ![p] = "setJSON"]
                 /\ frame' = [frame EXCEPT ![p] =
                                 [NoFrame EXCEPT !.key = k, !.value = v, !.now = now]]
                 /\ resp' = NoResp
    /\ UNCHANGED <<clock, blobs, durableDown>>
    /\ UNCHANGED notCacheVars

\* store.setJSON resolves: the envelope is in the store, Cache.set returns.
SetJSONResolve(p) ==
    /\ pc[p] = "setJSON"
    /\ ~durableDown
    /\ blobs' = [blobs EXCEPT ![frame[p].key] = setNetlifyDoc(frame[p].value, frame[p].now)]
    /\ resp' = SetResp(p, frame[p].key, frame[p].value, frame[p].now, FALSE, FALSE)
    /\ pc' = [pc EXCEPT ![p] = "idle"]
    /\ frame' = [frame EXCEPT ![p] = NoFrame]
    /\ UNCHANGED <<clock, memoryCache, durableDown, lastSet>>
    /\ UNCHANGED notCacheVars

\* store.setJSON rejects: nothing is stored (weatherService.ts:361-364).
SetJSONReject(p) ==
    /\ pc[p] = "setJSON"
    /\ resp' = SetResp(p, frame[p].key, frame[p].value, frame[p].now,
                       setNetlifyOnWriteError.threw, TRUE)
    /\ pc' = [pc EXCEPT ![p] = "idle"]
    /\ frame' = [frame EXCEPT ![p] = NoFrame]
    /\ UNCHANGED <<clock, memoryCache, blobs, durableDown, lastSet>>
    /\ UNCHANGED notCacheVars

\* Mutant: a get that found a value puts it into the local tier.
memoryCacheAfterGet_Repopulated(k, result) ==
    IF result # Null THEN setLocalCache(k, result, clock) ELSE memoryCache

\* The local map after Cache.get(k) produced `result`: neither get nor
\* #getLocalCache nor #getNetlify has a statement that writes or deletes an
\* entry (weatherService.ts:310-348, 367-388, 395-398).
memoryCacheAfterGet(k, result) == memoryCache

(***************************************************************************)
(* Cache.get(key) up to its first suspension (weatherService.ts:395-398    *)
(* and 310-321): the local tier answers if it can (`local ?? ...`);        *)
(* otherwise #getNetlify calls getStore and, unless that throws, suspends  *)
(* on `await store.get(key, {type: "json"})`.                              *)
(***************************************************************************)
GetCall(p, k) ==
    /\ pc[p] = "idle"
    /\ LET local == getLocalCache(k) IN
       IF local # Null
       THEN /\ resp' = GetResp(p, k, local, FALSE, "local", clock, memoryCache[k],
                               lastSet[k], FALSE, FALSE, NoBlob)
            /\ UNCHANGED <<pc, frame>>
       ELSE \E o \in GetStoreOutcomes :
            IF o = "throws"
            THEN /\ resp' = GetResp(p, k, getNetlifyOnGetStoreError.result,
                                    getNetlifyOnGetStoreError.threw, "none", clock,
                                    memoryCache[k], lastSet[k], TRUE, TRUE, NoBlob)
                 /\ UNCHANGED <<pc, frame>>
            ELSE /\ pc' = [pc EXCEPT ![p] = "storeGet"]
                 /\ frame' = [frame EXCEPT ![p] =
                                 [NoFrame EXCEPT !.key = k, !.calledAt = clock,
                                                 !.localSeen = memoryCache[k],
                                                 !.lastSetSeen = lastSet[k]]]
                 /\ resp' = NoResp
    /\ memoryCache' = memoryCacheAfterGet(k, getLocalCache(k))
    /\ UNCHANGED <<clock, blobs, durableDown, lastSet>>
    /\ UNCHANGED notCacheVars

\* store.get resolves with the parsed document; #getNetlify checks it and returns.
StoreGetResolve(p) ==
    /\ pc[p] = "storeGet"
    /\ ~durableDown
    /\ LET doc == blobs[frame[p].key]
           value == getNetlifyResult(JsonParse(doc))
       IN resp' = GetResp(p, frame[p].key, value, FALSE,
                          IF value = Null THEN "none" ELSE "netlify",
                          frame[p].calledAt, frame[p].localSeen, frame[p].lastSetSeen,
                          TRUE, FALSE, doc)
    /\ pc' = [pc EXCEPT ![p] = "idle"]
    /\ frame' = [frame EXCEPT ![p] = NoFrame]
    /\ memoryCache' = memoryCacheAfterGet(frame[p].key,
                                          getNetlifyResult(JsonParse(blobs[frame[p].key])))
    /\ UNCHANGED <<clock, blobs, durableDown, lastSet>>
    /\ UNCHANGED notCacheVars

\* store.get rejects (weatherService.ts:322-325).
StoreGetReject(p) ==
    /\ pc[p] = "storeGet"
    /\ resp' = GetResp(p, frame[p].key, getNetlifyOnReadError.result,
                       getNetlifyOnReadError.threw, "none",
                       frame[p].calledAt, frame[p].localSeen, frame[p].lastSetSeen,
                       TRUE, TRUE, NoBlob)
    /\ pc' = [pc EXCEPT ![p] = "idle"]
    /\ frame' = [frame EXCEPT ![p] = NoFrame]
    /\ UNCHANGED <<clock, memoryCache, blobs, durableDown, lastSet>>
    /\ UNCHANGED notCacheVars

\* Another instance sharing the store writes a document under a key.
OtherInstanceWrite(k, doc) ==
    /\ blobs' = [blobs EXCEPT ![k] = doc]
    /\ resp' = NoResp
    /\ UNCHANGED <<clock, memoryCache, durableDown, pc, frame, lastSet>>
    /\ UNCHANGED notCacheVars

CacheNext ==
    \/ Tick
    \/ \E p \in Procs, k \in Keys, v \in Values : SetCall(p, k, v)
    \/ \E p \in Procs : SetJSONResolve(p)
    \/ \E p \in Procs : SetJSONReject(p)
    \/ \E p \in Procs, k \in Keys : GetCall(p, k)
    \/ \E p \in Procs : StoreGetResolve(p)
    \/ \E p \in Procs : StoreGetReject(p)
    \/ \E k \in Keys, doc \in ForeignDocs : OtherInstanceWrite(k, doc)

(***************************************************************************)
(* Claims about the cache.                                                 *)
(***************************************************************************)
\* A document that is a {cachedAt: number, value: non-null} envelope
WellFormedDoc(doc) ==
    doc.json = "object" /\ "cachedAt:number" \in doc.fields /\ "value" \in doc.fields

\* C1: if set(k, v) was called at time T and no later set(k, ...) happened, a
\* get(k) called at a time strictly before T + ttl returns v (not absent and
\* not anything else), whether or not the durable tier works.
C1_FreshSetIsReturned ==
    (resp.op = "get" /\ resp.lastSetSeen.called
        /\ resp.calledAt < resp.lastSetSeen.at + ttl)
    => (resp.result = resp.lastSetSeen.value /\ ~resp.threw)

C1_Witness ==
    /\ resp.op = "get" /\ resp.lastSetSeen.called /\ durableDown
    /\ resp.calledAt = resp.lastSetSeen.at + ttl - 1
    /\ resp.result = resp.lastSetSeen.value

\* C2: Cache.get never returns a value taken from an entry, local or durable,
\* whose age when it was checked satisfies now - cachedAt >= ttl; every value
\* returned comes from an entry strictly younger than ttl.
C2_NeverReturnsExpired ==
    (resp.op = "get" /\ resp.result # Null)
    => \/ /\ resp.src = "local"
          /\ resp.localSeen.type = "object"
          /\ resp.result = resp.localSeen.value
          /\ resp.checkedAt - resp.localSeen.cachedAt < ttl
       \/ /\ resp.src = "netlify"
          /\ WellFormedDoc(resp.docSeen)
          /\ resp.result = resp.docSeen.str
          /\ resp.checkedAt - resp.docSeen.num < ttl

\* Both tiers hold an entry exactly ttl old and get answers absent.
C2_Witness ==
    /\ resp.op = "get" /\ resp.result = Null
    /\ resp.localSeen.type = "object"
    /\ resp.calledAt - resp.localSeen.cachedAt = ttl
    /\ resp.asked /\ ~resp.failed
    /\ WellFormedDoc(resp.docSeen)
    /\ resp.checkedAt - resp.docSeen.num = ttl

\* What a local-only TTL cache answers to a get called at time t when the last
\* set for the key is ls.
LocalOnlyGet(ls, t) ==
    IF ls.called /\ t - ls.at < ttl THEN ls.value ELSE Null

\* C3: Cache.set(k, v) always leaves {v, now} in the local tier, already while
\* the durable write is still pending and whatever its outcome; and with a
\* durable tier that fails on every operation, every get answers what a
\* local-only TTL cache answers (the last value set while younger than ttl,
\* absent otherwise) and no call fails.
C3_LocalTierAlwaysWritten ==
    /\ \A k \in Keys :
          memoryCache[k] = IF lastSet[k].called
                           THEN Cached(lastSet[k].value, lastSet[k].at)
                           ELSE JsUndefined
    /\ (durableDown /\ resp.op = "get")
          => (resp.result = LocalOnlyGet(resp.lastSetSeen, resp.calledAt) /\ ~resp.threw)
    /\ (durableDown /\ resp.op = "set") => ~resp.threw

\* The durable tier is down, one set is still waiting for its durable write
\* and a get of another caller is already served the value from the local tier.
C3_Witness ==
    /\ durableDown
    /\ resp.op = "get" /\ resp.result # Null
    /\ \E p \in Procs :
          /\ pc[p] = "setJSON"
          /\ frame[p].key = resp.key
          /\ frame[p].value = resp.result
          /\ blobs[resp.key] = NoBlob

\* C4: no failure of the durable tier makes Cache.get or Cache.set throw: when
\* getStore throws, when the durable read or write rejects, or when the stored
\* object is not a {cachedAt: number, value: non-null} envelope, get treats the
\* durable tier as absent for that call and set completes normally.
C4_DurableFailuresAbsorbed ==
    /\ resp.op \in {"get", "set"} => ~resp.threw
    /\ (resp.op = "get" /\ resp.asked /\ (resp.failed \/ ~WellFormedDoc(resp.docSeen)))
          => resp.result = Null
    /\ (resp.op = "set" /\ resp.failed)
          => memoryCache[resp.key].type = "object"

\* A get that read an object which is not an envelope and answered absent.
C4_Witness ==
    /\ resp.op = "get" /\ resp.asked /\ ~resp.failed
    /\ resp.docSeen.json = "object" /\ ~WellFormedDoc(resp.docSeen)
    /\ resp.result = Null /\ ~resp.threw

\* C5: get prefers the local tier: when the local tier holds a fresh entry it
\* returns that entry's value without consulting the durable tier; only when
\* the local entry is missing or expired does it query the durable tier,
\* returning the durable value if that entry is fresh and absent otherwise.
C5_LocalTierPreferred ==
    resp.op = "get" =>
        LET localFresh == /\ resp.localSeen.type = "object"
                          /\ resp.calledAt - resp.localSeen.cachedAt < ttl
            durableFresh == /\ ~resp.failed
                            /\ WellFormedDoc(resp.docSeen)
                            /\ resp.checkedAt - resp.docSeen.num < ttl
        IN  /\ localFresh => (~resp.asked /\ resp.result = resp.localSeen.value)
            /\ ~localFresh =>
                  /\ resp.asked
                  /\ resp.result = IF durableFresh THEN resp.docSeen.str ELSE Null

\* The local tier answers although the store holds a newer, different entry.
C5_Witness ==
    /\ resp.op = "get" /\ ~resp.asked /\ resp.result # Null
    /\ WellFormedDoc(blobs[resp.key])
    /\ blobs[resp.key].str # resp.result
    /\ blobs[resp.key].num > resp.localSeen.cachedAt

\* A cold instance (nothing ever set locally) is served another instance's entry.
C5_ColdStartServed ==
    /\ resp.op = "get" /\ resp.src = "netlify" /\ resp.result # Null
    /\ ~resp.lastSetSeen.called

(***************************************************************************)
(* The recycling-week calculator (services/recyclingService.ts).           *)
(*                                                                         *)
(* Time values are counted in days since 1970-01-01: every Date the code   *)
(* builds is a UTC midnight, so each getTime() is a multiple of 86400000   *)
(* and (a - b) / msPerWeek is the same real number as (days a - days b)/7. *)
(***************************************************************************)
\* Bounds of the calendar the calls are drawn from.
WindowDays == 20
MaxWeeksApart == 2

IsLeapYear(y) == (y % 4 = 0 /\ y % 100 # 0) \/ y % 400 = 0

DaysInMonth(y, m0) ==
    IF m0 = 1 THEN (IF IsLeapYear(y) THEN 29 ELSE 28)
    ELSE IF m0 \in {3, 5, 8, 10} THEN 30 ELSE 31

\* ECMAScript DayFromYear
DayFromYear(y) ==
    365 * (y - 1970) + ((y - 1969) \div 4) - ((y - 1901) \div 100) + ((y - 1601) \div 400)

RECURSIVE DaysBeforeMonth(_, _)
DaysBeforeMonth(y, m0) ==
    IF m0 = 0 THEN 0 ELSE DaysBeforeMonth(y, m0 - 1) + DaysInMonth(y, m0 - 1)

\* Date.UTC(year, month, date, 0, 0, 0, 0) in days: ECMAScript MakeDay, which
\* lets `date` run past the end of the month (used by setUTCDate).
DateUTC(year, month0, date) ==
    DayFromYear(year) + DaysBeforeMonth(year, month0) + date - 1

\* Date.prototype.getUTCDay: 1970-01-01 was a Thursday.
getUTCDay(day) == (day + 4) % 7

\* Mutant of the rounding: truncation toward zero (Math.trunc) instead of Math.round.
MathRound_Trunc(num, den) ==
    IF num >= 0 THEN num \div den ELSE -((-num) \div den)

\* Math.round(num / den) for den > 0: the nearest integer, halves rounded up.
MathRound(num, den) == (2 * num + den) \div (2 * den)

\* The JavaScript % operator: the result has the sign of the dividend.
JsRem(a, b) == IF a >= 0 THEN a % b ELSE -((-a) % b)

(***************************************************************************)
(* Intl.DateTimeFormat("en-US", {year: "numeric", month/day/hour:          *)
(* "2-digit", hour12: false}).formatToParts and parseInt                   *)
(* (recyclingService.ts:11-29).  Parts are digit strings.  With hour12:    *)
(* false the runtime resolves the hour cycle of en-US either to h23        *)
(* (midnight is "00") or to h24 (midnight is "24"), depending on the       *)
(* ECMA-402 edition its Intl implements.                                   *)
(***************************************************************************)
HourCycles == {"h23", "h24"}

TwoDigit(n) == <<(n \div 10) % 10, n % 10>>

Numeric(n) == <<(n \div 1000) % 10, (n \div 100) % 10, (n \div 10) % 10, n % 10>>

RECURSIVE parseInt(_)
parseInt(digits) ==
    IF digits = <<>> THEN 0
    ELSE 10 * parseInt(SubSeq(digits, 1, Len(digits) - 1)) + digits[Len(digits)]

FormatHour(h) == IF hourCycle = "h24" /\ h = 0 THEN TwoDigit(24) ELSE TwoDigit(h)

\* getDateInTimezone (recyclingService.ts:9-43) for an instant whose wall-clock
\* reading in the timezone is `date` = <<year, month 1..12, day>> at `hour`.
getDateInTimezone(date, hour) ==
    LET year == parseInt(Numeric(date[1]))
        month == parseInt(TwoDigit(date[2])) - 1
        day == parseInt(TwoDigit(date[3]))
        hr == parseInt(FormatHour(hour))
        localMidnight == DateUTC(year, month, day)
    IN  [year |-> year, month |-> month, day |-> day, hour |-> hr,
         dayOfWeek |-> getUTCDay(localMidnight), midnightUTC |-> localMidnight]

(***************************************************************************)
(* RecyclingConfig: `has` names the properties that are present.           *)
(***************************************************************************)
DefaultReferenceDate == <<2025, 11, 18>>

ConfigValue(config, field, default) ==
    IF field \in config.has THEN config[field] ELSE default

\* Mutant: the recycling and trash-only texts are exchanged.
Message_Exchanged(isRecycling, isThisWeek) ==
    IF isRecycling
    THEN (IF isThisWeek THEN "This week is trash only" ELSE "Next week is trash only")
    ELSE (IF isThisWeek THEN "This week is recycling pickup" ELSE "Next week is recycling pickup")

\* The message (recyclingService.ts:135-141)
Message(isRecycling, isThisWeek) ==
    IF isRecycling
    THEN (IF isThisWeek THEN "This week is recycling pickup" ELSE "Next week is recycling pickup")
    ELSE (IF isThisWeek THEN "This week is trash only" ELSE "Next week is trash only")

\* new Date(current.midnightUTC) followed by setUTCDate(getUTCDate() + n)
\* (recyclingService.ts:99-100, 112-115)
AddUTCDays(current, n) == DateUTC(current.year, current.month, current.day + n)

\* The parity rule (recyclingService.ts:130-132)
IsRecycling(referenceWasRecycling, weeksDifference) ==
    IF referenceWasRecycling
    THEN JsRem(weeksDifference, 2) = 0
    ELSE JsRem(weeksDifference, 2) # 0

\* isThisWeek for a recycling day that is not today (recyclingService.ts:117)
IsThisWeek(daysUntilRecyclingDay) == daysUntilRecyclingDay <= 2

\* getRecyclingInfo (recyclingService.ts:73-147).  Besides the RecyclingInfo
\* it returns, the record shows the target day and the week distance it used.
getRecyclingInfo(date, hour, config) ==
    LET current == getDateInTimezone(date, hour)
        recyclingDayOfWeek == ConfigValue(config, "recyclingDayOfWeek", 2)
        cutoffHour == ConfigValue(config, "cutoffHour", 12)
        referenceDateStr == ConfigValue(config, "referenceDate", DefaultReferenceDate)
        referenceWasRecycling == ConfigValue(config, "referenceWasRecycling", TRUE)
        referenceDate ==
            DateUTC(referenceDateStr[1], referenceDateStr[2] - 1, referenceDateStr[3])
        isRecyclingDay == current.dayOfWeek = recyclingDayOfWeek
        isAfterCutoff == current.hour >= cutoffHour
        daysUntilRecyclingDay == JsRem(recyclingDayOfWeek - current.dayOfWeek + 7, 7)
        targetDayUTC ==
            IF isRecyclingDay /\ isAfterCutoff THEN AddUTCDays(current, 7)
            ELSE IF daysUntilRecyclingDay = 0 THEN current.midnightUTC
            ELSE AddUTCDays(current, daysUntilRecyclingDay)
        isThisWeek ==
            IF isRecyclingDay /\ isAfterCutoff THEN FALSE
            ELSE IF daysUntilRecyclingDay = 0 THEN TRUE
            ELSE IsThisWeek(daysUntilRecyclingDay)
        weeksDifference == MathRound(targetDayUTC - referenceDate, 7)
        isRecycling == IsRecycling(referenceWasRecycling, weeksDifference)
    IN  [isRecyclingWeek |-> isRecycling,
         message |-> Message(isRecycling, isThisWeek),
         targetDayUTC |-> targetDayUTC,
         weeksDifference |-> weeksDifference]

(***************************************************************************)
(* The calls the calculator is checked on: local dates from three windows  *)
(* (a leap-day month end, a year end, and the weeks around the default     *)
(* reference date), hours around midnight and the cutoffs, and configs     *)
(* with each property absent or set.                                       *)
(***************************************************************************)
WindowStarts == {<<2024, 2, 20>>, <<2024, 12, 22>>, <<2025, 11, 9>>}

DayNumber(date) == DateUTC(date[1], date[2] - 1, date[3])

InWindow(date) ==
    \E w \in WindowStarts :
        /\ DayNumber(date) >= DayNumber(w)
        /\ DayNumber(date) < DayNumber(w) + WindowDays

Calendar ==
    { date \in {2024, 2025} \X (1..12) \X (1..31) :
        date[3] <= DaysInMonth(date[1], date[2] - 1) /\ InWindow(date) }

\* The calendar date after `date`, and the one n days after it.
Tomorrow(date) ==
    IF date[3] < DaysInMonth(date[1], date[2] - 1) THEN <<date[1], date[2], date[3] + 1>>
    ELSE IF date[2] < 12 THEN <<date[1], date[2] + 1, 1>>
    ELSE <<date[1] + 1, 1, 1>>

RECURSIVE DateAfter(_, _)
DateAfter(date, n) == IF n = 0 THEN date ELSE DateAfter(Tomorrow(date), n - 1)

Hours == {0, 11, 12, 13, 23}

CutoffHours == {0, 12, 23}

\* An option is <<present, value>>.
RecyclingConfig(dayOpt, cutoffOpt, refOpt, wasOpt) ==
    [has |-> (IF dayOpt[1] THEN {"recyclingDayOfWeek"} ELSE {})
             \cup (IF cutoffOpt[1] THEN {"cutoffHour"} ELSE {})
             \cup (IF refOpt[1] THEN {"referenceDate"} ELSE {})
             \cup (IF wasOpt[1] THEN {"referenceWasRecycling"} ELSE {}),
     recyclingDayOfWeek |-> dayOpt[2],
     cutoffHour |-> cutoffOpt[2],
     referenceDate |-> refOpt[2],
     referenceWasRecycling |-> wasOpt[2]]

Configs ==
    { RecyclingConfig(d, c, r, w) :
        d \in {<<FALSE, 2>>, <<TRUE, 0>>, <<TRUE, 4>>},
        c \in {<<FALSE, 12>>, <<TRUE, 0>>, <<TRUE, 23>>},
        r \in {<<FALSE, DefaultReferenceDate>>, <<TRUE, <<2024, 12, 31>> >>,
               <<TRUE, <<2025, 11, 20>> >>, <<TRUE, <<2025, 11, 25>> >>},
        w \in {<<FALSE, TRUE>>, <<TRUE, FALSE>>} }

NoResult ==
    [isRecyclingWeek |-> FALSE, message |-> "not called", targetDayUTC |-> 0,
     weeksDifference |-> 0]

NoPrev == [called |-> FALSE, date |-> <<0, 0, 0>>, result |-> NoResult]

RecyclingInit ==
    /\ hourCycle \in HourCycles
    /\ rcCall \in [date : Calendar, hour : Hours, config : Configs]
    /\ rcResult = NoResult
    /\ rcPrev = NoPrev

\* getRecyclingInfo(now, timezone, config) is called at the chosen moment.
Evaluate ==
    /\ rcResult = NoResult
    /\ rcResult' = getRecyclingInfo(rcCall.date, rcCall.hour, rcCall.config)
    /\ UNCHANGED <<hourCycle, rcCall, rcPrev>>
    /\ UNCHANGED notRecyclingVars

\* It is called again n weeks later, at the same local hour, with the same config.
EvaluateLater(n) ==
    /\ rcResult # NoResult
    /\ ~rcPrev.called
    /\ LET later == DateAfter(rcCall.date, 7 * n) IN
          /\ InWindow(later)
          /\ rcCall' = [rcCall EXCEPT !.date = later]
          /\ rcResult' = getRecyclingInfo(later, rcCall.hour, rcCall.config)
    /\ rcPrev' = [called |-> TRUE, date |-> rcCall.date, result |-> rcResult]
    /\ UNCHANGED hourCycle
    /\ UNCHANGED notRecyclingVars

RecyclingNext ==
    \/ Evaluate
    \/ \E n \in 1..MaxWeeksApart : EvaluateLater(n)

(***************************************************************************)
(* Claims about the calculator.  They are stated on the call's local       *)
(* moment (rcCall.date, rcCall.hour), not on what the formatter made of it.*)
(***************************************************************************)
Weekday(date) == getUTCDay(DayNumber(date))

CfgDay(config) == ConfigValue(config, "recyclingDayOfWeek", 2)

CfgCutoff(config) == ConfigValue(config, "cutoffHour", 12)

CfgReference(config) == ConfigValue(config, "referenceDate", DefaultReferenceDate)

CfgWasRecycling(config) == ConfigValue(config, "referenceWasRecycling", TRUE)

SaysThisWeek(result) ==
    result.message \in {"This week is recycling pickup", "This week is trash only"}

SaysNextWeek(result) ==
    result.message \in {"Next week is recycling pickup", "Next week is trash only"}

\* C6: parity law: two calls at the same local weekday and hour, with the same
\* config, whose dates are n weeks apart give the same isRecyclingWeek exactly
\* when n is even (7 days apart: different; 14 days apart: equal).
C6_ParityLaw ==
    rcPrev.called =>
        LET days == DayNumber(rcCall.date) - DayNumber(rcPrev.date)
        IN  /\ days % 7 = 0
            /\ (rcResult.isRecyclingWeek = rcPrev.result.isRecyclingWeek)
                  <=> ((days \div 7) % 2 = 0)

\* Two calls a week apart across the year end, before the reference date, with
\* the reference date not on the active weekday and the polarity reversed.
C6_Witness ==
    /\ rcPrev.called
    /\ DayNumber(rcCall.date) - DayNumber(rcPrev.date) = 7
    /\ rcPrev.date[1] # rcCall.date[1]
    /\ rcResult.weeksDifference <= 0 /\ rcPrev.result.weeksDifference < 0
    /\ Weekday(CfgReference(rcCall.config)) # CfgDay(rcCall.config)
    /\ ~CfgWasRecycling(rcCall.config)
    /\ rcResult.isRecyclingWeek # rcPrev.result.isRecyclingWeek

\* C7: the message says "This week" exactly when the upcoming active day is 0,
\* 1 or 2 days after the local date and the moment is not on the active day at
\* or after the cutoff hour; it says "Next week" when the active day is 3 to 6
\* days away and when today is the active day at or after the cutoff.
C7_ThisNextBoundary ==
    rcResult # NoResult =>
        LET away == (CfgDay(rcCall.config) - Weekday(rcCall.date) + 7) % 7
            pastCutoffToday == /\ Weekday(rcCall.date) = CfgDay(rcCall.config)
                               /\ rcCall.hour >= CfgCutoff(rcCall.config)
        IN  /\ SaysThisWeek(rcResult) <=> (away <= 2 /\ ~pastCutoffToday)
            /\ SaysNextWeek(rcResult) <=> (away >= 3 \/ pastCutoffToday)

\* C8: on the active weekday a local hour >= cutoffHour is evaluated against the
\* occurrence 7 days later and a local hour < cutoffHour against today's; on
\* every other weekday the local hour and the cutoff hour do not affect the
\* result.
C8_CutoffBoundary ==
    rcResult # NoResult =>
        LET today == DayNumber(rcCall.date)
            onActiveDay == Weekday(rcCall.date) = CfgDay(rcCall.config)
        IN  /\ (onActiveDay /\ rcCall.hour >= CfgCutoff(rcCall.config))
                  => rcResult.targetDayUTC = today + 7
            /\ (onActiveDay /\ rcCall.hour < CfgCutoff(rcCall.config))
                  => rcResult.targetDayUTC = today
            /\ ~onActiveDay =>
                  \A h \in Hours, c \in CutoffHours :
                      getRecyclingInfo(rcCall.date, h,
                          [rcCall.config EXCEPT !.has = @ \cup {"cutoffHour"},
                                                !.cutoffHour = c]) = rcResult

\* C9: with the reference date on the active weekday: on the reference date
\* before the cutoff, isRecyclingWeek = referenceWasRecycling and the message
\* says "This week"; on the reference date at or after the cutoff, the opposite
\* value and "Next week"; on the active weekday n whole weeks from the
\* reference date, before the cutoff, isRecyclingWeek = referenceWasRecycling
\* exactly when n is even.
C9_ReferenceAnchor ==
    (rcResult # NoResult
        /\ Weekday(CfgReference(rcCall.config)) = CfgDay(rcCall.config)
        /\ Weekday(rcCall.date) = CfgDay(rcCall.config))
    => LET days == DayNumber(rcCall.date) - DayNumber(CfgReference(rcCall.config))
           was == CfgWasRecycling(rcCall.config)
           before == rcCall.hour < CfgCutoff(rcCall.config)
       IN  /\ (days = 0 /\ before)
                 => (rcResult.isRecyclingWeek = was /\ SaysThisWeek(rcResult))
           /\ (days = 0 /\ ~before)
                 => (rcResult.isRecyclingWeek = ~was /\ SaysNextWeek(rcResult))
           /\ before
                 => ((rcResult.isRecyclingWeek = was) <=> ((days \div 7) % 2 = 0))

(***************************************************************************)
(* The bearer-token middleware (middleware/auth.ts).                       *)
(*                                                                         *)
(* A string is a sequence of pieces: " " is one space, every other piece   *)
(* is a non-empty run of characters without a space ("Bearer" and "bearer" *)
(* are those words, "k" and "x" are other letters).  No piece is a         *)
(* concatenation of others, so two strings are equal exactly when their    *)
(* sequences are.  A value that may be undefined is [defined, chars].      *)
(***************************************************************************)
MaxHeaderLen == 5

Pieces == {"Bearer", "bearer", " ", "k", "x"}

RECURSIVE StringsUpTo(_)
StringsUpTo(n) ==
    IF n = 0 THEN {<<>>}
    ELSE LET shorter == StringsUpTo(n - 1)
         IN  shorter \cup { Append(s, c) : s \in {t \in shorter : Len(t) = n - 1}, c \in Pieces }

Undefined == [defined |-> FALSE, chars |-> <<>>]

Str(chars) == [defined |-> TRUE, chars |-> chars]

\* String.prototype.split(" "): the parts between single spaces; "" gives [""].
RECURSIVE Split(_)
Split(s) ==
    IF \A i \in 1..Len(s) : s[i] # " " THEN <<s>>
    ELSE LET i == CHOOSE j \in 1..Len(s) :
                      s[j] = " " /\ \A l \in 1..(j - 1) : s[l] # " "
         IN  <<SubSeq(s, 1, i - 1)>> \o Split(SubSeq(s, i + 1, Len(s)))

\* !x for a string that may be undefined: undefined and "" are falsy.
Falsy(x) == ~x.defined \/ x.chars = <<>>

\* Mutant: the return after the error response is missing and the middleware
\* goes on to next().
Reject_FallsThrough(status, error) ==
    [status |-> status, error |-> error, sent |-> 1, nextCalls |-> 1]

\* res.status(code).json({error, ...}) followed by return: one response, next not called.
Reject(status, error) == [status |-> status, error |-> error, sent |-> 1, nextCalls |-> 0]

\* next(): the request goes on to the handlers registered after the middleware.
Proceed == [status |-> 0, error |-> "", sent |-> 0, nextCalls |-> 1]

\* Mutant: the header is examined before the configuration.
validateApiKey_HeaderFirst(authHeader, validApiKey) ==
    IF Falsy(authHeader) THEN Reject(401, "Unauthorized: API key required")
    ELSE IF Falsy(validApiKey)
    THEN Reject(500, "Server configuration error: API_KEY not set")
    ELSE LET parts == Split(authHeader.chars) IN
         IF Len(parts) # 2 \/ parts[1] # <<"Bearer">>
         THEN Reject(401, "Unauthorized: Invalid authorization format")
         ELSE IF parts[2] # validApiKey.chars
         THEN Reject(403, "Forbidden: Invalid API key")
         ELSE Proceed

\* validateApiKey (middleware/auth.ts, TypeScript: part_000:127-166)
validateApiKey(authHeader, validApiKey) ==
    IF Falsy(validApiKey)
    THEN Reject(500, "Server configuration error: API_KEY not set")
    ELSE IF Falsy(authHeader) THEN Reject(401, "Unauthorized: API key required")
    ELSE LET parts == Split(authHeader.chars) IN
         IF Len(parts) # 2 \/ parts[1] # <<"Bearer">>
         THEN Reject(401, "Unauthorized: Invalid authorization format")
         ELSE LET apiKey == parts[2] IN
              IF apiKey # validApiKey.chars
              THEN Reject(403, "Forbidden: Invalid API key")
              ELSE Proceed

\* The secrets the server may be configured with, and the headers a client may send.
ApiKeys == {Undefined, Str(<<>>), Str(<<"k">>), Str(<<"x", "k">>), Str(<<"k", " ", "x">>)}

Headers == {Undefined} \cup { Str(s) : s \in StringsUpTo(MaxHeaderLen) }

NotValidated == [status |-> 0, error |-> "", sent |-> 0, nextCalls |-> 0]

AuthInit ==
    /\ apiKeyEnv \in ApiKeys
    /\ request \in [authorization : Headers, validated : {FALSE}]
    /\ authOut = NotValidated

\* app.use(validateApiKey): the middleware runs on the request.
ValidateRequest ==
    /\ ~request.validated
    /\ authOut' = validateApiKey(request.authorization, apiKeyEnv)
    /\ request' = [request EXCEPT !.validated = TRUE]
    /\ UNCHANGED apiKeyEnv
    /\ UNCHANGED notAuthVars

AuthNext == ValidateRequest

(***************************************************************************)
(* Claims about the middleware.                                            *)
(***************************************************************************)
\* The header is "Bearer", one space, and a token without a space.
IsBearerForm(header) ==
    /\ Len(header.chars) >= 2
    /\ header.chars[1] = "Bearer" /\ header.chars[2] = " "
    /\ \A i \in 3..Len(header.chars) : header.chars[i] # " "

BearerToken(header) == SubSeq(header.chars, 3, Len(header.chars))

\* The outcomes in the order claimed, with `noKey` and `noHeader` saying which
\* configurations and requests count as having no API_KEY and no header.
FirstMatchingOutcome(noKey, noHeader) ==
    IF noKey THEN Reject(500, "Server configuration error: API_KEY not set")
    ELSE IF noHeader THEN Reject(401, "Unauthorized: API key required")
    ELSE IF ~IsBearerForm(request.authorization)
    THEN Reject(401, "Unauthorized: Invalid authorization format")
    ELSE IF BearerToken(request.authorization) # apiKeyEnv.chars
    THEN Reject(403, "Forbidden: Invalid API key")
    ELSE Proceed

\* process.env.API_KEY is unset or empty: no API_KEY is configured.
NoApiKey == ~apiKeyEnv.defined \/ apiKeyEnv.chars = <<>>

\* C10 as stated: fixed order, first match wins: API_KEY not configured -> 500;
\* else no Authorization header -> 401 "API key required"; else a header that is
\* not "Bearer <token>" -> 401 "Invalid authorization format"; else a token that
\* differs from the secret -> 403; else the request proceeds.
C10_FixedOrder_AsStated ==
    request.validated =>
        authOut = FirstMatchingOutcome(NoApiKey, ~request.authorization.defined)

\* C10 amended: the same order, where an Authorization header that is absent
\* or empty counts as no header (an empty header gets "API key required", not
\* "Invalid authorization format").
C10_FixedOrder ==
    request.validated =>
        authOut = FirstMatchingOutcome(
                      NoApiKey,
                      ~request.authorization.defined \/ request.authorization.chars = <<>>)

\* Every outcome but the first is reached with a configured key; the witness is
\* the last one before success: a well-formed header with the wrong token.
C10_Witness ==
    /\ request.validated
    /\ apiKeyEnv = Str(<<"x", "k">>)
    /\ request.authorization = Str(<<"Bearer", " ", "k", "x">>)
    /\ authOut = Reject(403, "Forbidden: Invalid API key")

(***************************************************************************)
(* Today's weather condition (services/weatherService.ts).                 *)
(***************************************************************************)
MaxConditions == 3

WeatherConditions ==
    {"clear", "partly_cloudy", "cloudy", "rain", "snow", "thunderstorm",
     "drizzle", "mist", "unknown"}

mapWeatherCondition(weatherId) ==
    IF weatherId >= 200 /\ weatherId < 300 THEN "thunderstorm"
    ELSE IF weatherId >= 300 /\ weatherId < 400 THEN "drizzle"
    ELSE IF weatherId >= 500 /\ weatherId < 600 THEN "rain"
    ELSE IF weatherId >= 600 /\ weatherId < 700 THEN "snow"
    ELSE IF weatherId >= 700 /\ weatherId < 800 THEN "mist"
    ELSE IF weatherId = 800 THEN "clear"
    ELSE IF weatherId = 801 \/ weatherId = 802 THEN "partly_cloudy"
    ELSE IF weatherId = 803 \/ weatherId = 804 THEN "cloudy"
    ELSE "unknown"

\* the priority table of getMostSignificantWeather
priority ==
    [c \in WeatherConditions |->
        CASE c = "snow" -> 7
          [] c = "thunderstorm" -> 6
          [] c = "rain" -> 5
          [] c = "drizzle" -> 4
          [] c = "mist" -> 3
          [] c = "cloudy" -> 2
          [] c = "partly_cloudy" -> 1
          [] c = "clear" -> 0
          [] c = "unknown" -> -1]

MoreSignificant(mostSignificant, current) ==
    IF priority[current] > priority[mostSignificant] THEN current ELSE mostSignificant

\* conditions.reduce(callback, initialValue): left to right from the seed
RECURSIVE reduce(_, _)
reduce(list, mostSignificant) ==
    IF list = <<>> THEN mostSignificant
    ELSE reduce(Tail(list), MoreSignificant(mostSignificant, Head(list)))

getMostSignificantWeather(list) == reduce(list, "clear")

\* the weather field of getWeatherDataFromAPI, from the ids of daily[0].weather
TodayWeather(ids) ==
    LET todayWeatherConditions ==
            [i \in 1..Len(ids) |-> mapWeatherCondition(ids[i])]
    IN  IF Len(todayWeatherConditions) > 0
        THEN getMostSignificantWeather(todayWeatherConditions)
        ELSE "unknown"

\* one id per branch of mapWeatherCondition (900 is not an OpenWeatherMap code)
WeatherIds == {211, 301, 502, 601, 741, 800, 802, 804, 900}

WeatherIdLists == UNION {[1..n -> WeatherIds] : n \in 0..MaxConditions}

NoWeather == "none"

ForecastInit ==
    /\ weatherIds \in WeatherIdLists
    /\ weather = NoWeather

Report ==
    /\ weather = NoWeather
    /\ weather' = TodayWeather(weatherIds)
    /\ UNCHANGED weatherIds
    /\ UNCHANGED notForecastVars

ForecastNext == Report

(***************************************************************************)
(* C14.  For a non-empty list of reported conditions the result is the     *)
(* element of the list that ranks highest in snow > thunderstorm > rain >  *)
(* drizzle > mist > cloudy > partly-cloudy > clear > unknown: it is one of *)
(* the reported conditions and none of them outranks it (so the order of   *)
(* the list cannot matter).                                                *)
(***************************************************************************)
Reported == {mapWeatherCondition(weatherIds[i]) : i \in 1..Len(weatherIds)}

C14_HighestReported ==
    (weather # NoWeather /\ Len(weatherIds) > 0) =>
        /\ weather \in Reported
        /\ \A c \in Reported : priority[c] <= priority[weather]

(***************************************************************************)
(* C16.  Last write wins per tier.  The local tier always holds exactly    *)
(* the {value, cachedAt} pair of the Cache.set invoked last on the key     *)
(* (so also once all overlapping sets have completed); a durable write     *)
(* that is applied leaves in the store exactly the pair of the set it      *)
(* belongs to, value and cachedAt of that one invocation, whichever set    *)
(* was invoked last.                                                       *)
(***************************************************************************)
EntryOf(value, cachedAt) ==
    [json |-> "object", fields |-> {"cachedAt:number", "value"},
     num |-> cachedAt, str |-> value]

C16_LastWriteWinsPerTier ==
    /\ \A k \in Keys :
          lastSet[k].called =>
              /\ memoryCache[k].type = "object"
              /\ memoryCache[k].cachedAtType = "number"
              /\ <<memoryCache[k].value, memoryCache[k].cachedAt>>
                     = <<lastSet[k].value, lastSet[k].at>>
    /\ (resp.op = "set" /\ ~resp.failed) =>
          blobs[resp.key] = EntryOf(resp.value, resp.calledAt)

\* Two sets overlapped and their durable writes were applied in the opposite
\* order: all calls are over, the local tier holds the set invoked last and
\* the durable tier the older set, whose write was applied last.
C16_Witness ==
    /\ \A p \in Procs : pc[p] = "idle"
    /\ resp.op = "set" /\ ~resp.failed
    /\ lastSet[resp.key].value # resp.value
    /\ lastSet[resp.key].at > resp.calledAt
    /\ memoryCache[resp.key] = Cached(lastSet[resp.key].value, lastSet[resp.key].at)
    /\ blobs[resp.key] = setNetlifyDoc(resp.value, resp.calledAt)

(***************************************************************************)
(* Configurations with a day of the week or a cutoff hour outside its      *)
(* range.  RecyclingConfig is an interface (recyclingService.ts:12-21): a  *)
(* configuration is an object literal and nothing runs when it is built.   *)
(***************************************************************************)
RangeConfigs ==
    { RecyclingConfig(d, c, <<FALSE, DefaultReferenceDate>>, <<FALSE, TRUE>>) :
        d \in {<<FALSE, 2>>, <<TRUE, 2>>, <<TRUE, -1>>, <<TRUE, 7>>, <<TRUE, 9>>},
        c \in {<<FALSE, 12>>, <<TRUE, 12>>, <<TRUE, -1>>, <<TRUE, 24>>} }

RecyclingRangeInit ==
    /\ hourCycle \in HourCycles
    /\ rcCall \in [date : Calendar, hour : Hours, config : RangeConfigs]
    /\ rcResult = NoResult
    /\ rcPrev = NoPrev

(***************************************************************************)
(* C20.  A configuration whose day of the week is outside 0..6 or whose    *)
(* cutoff hour is outside 0..23 is rejected: the calculation never returns *)
(* a result computed from such values.                                     *)
(***************************************************************************)
InRange(config) ==
    /\ "recyclingDayOfWeek" \in config.has => config.recyclingDayOfWeek \in 0..6
    /\ "cutoffHour" \in config.has => config.cutoffHour \in 0..23

C20_OutOfRangeRejected ==
    rcResult # NoResult => InRange(rcCall.config)

(***************************************************************************)
(* The HTTP application (api.ts, part_001) and getWeatherData              *)
(* (services/weatherService.ts:217-284) over the cache.                    *)
(***************************************************************************)
MaxAppClock == 2

Methods == {"GET", "POST"}

Paths ==
    {"/api/health", "/api/dashboard", "/api/hello", "/api/echo", "/api/greet/sam", "/api/nope"}

\* what express.json() finds in the request: nothing it cannot parse, or broken JSON
Bodies == {"none", "malformed"}

\* Authorization headers: none, the right bearer token, a wrong one, no scheme
AppHeaders ==
    {Undefined, Str(<<"Bearer", " ", "k">>), Str(<<"Bearer", " ", "x">>), Str(<<"k">>)}

AppApiKeys == {Undefined, Str(<<"k">>)}

Requests == [method : Methods, path : Paths, authorization : AppHeaders, body : Bodies]

NoRequest == [method |-> "none", path |-> "none", authorization |-> Undefined, body |-> "none"]

\* getRecyclingInfo(new Date(), timezone) (part_001:41): the third argument
\* is not given, so the calculator runs on its defaults.
NoConfig ==
    RecyclingConfig(<<FALSE, 2>>, <<FALSE, 12>>, <<FALSE, DefaultReferenceDate>>,
                    <<FALSE, TRUE>>)

\* process.env as the dashboard route and the error handler read it, and the
\* schedule set through RECYCLING_DAY_OF_WEEK, RECYCLING_CUTOFF_HOUR,
\* RECYCLING_REFERENCE_DATE and RECYCLING_REFERENCE_WAS_RECYCLING (README.md:24-28),
\* each one set or not.
Envs ==
    [nodeEnv : {"production", "development"}, openWeatherKey : BOOLEAN, coordinatesOk : BOOLEAN,
     recycling : {NoConfig}]

(***************************************************************************)
(* Errors and responses.  An Error is known by its message.                *)
(***************************************************************************)
NoError == [thrown |-> FALSE, message |-> ""]

Error(message) == [thrown |-> TRUE, message |-> message]

NoData == Null

NoRecycling == [isRecyclingWeek |-> FALSE, message |-> ""]

\* res.status(status).json({error, message}) / res.json(body)
Response(status, kind, error, message, data) ==
    [status |-> status, kind |-> kind, error |-> error, message |-> message,
     data |-> data, recycling |-> NoRecycling]

\* the health route (part_001:15-20)
healthJson == Response(200, "health", "", "ok", NoData)

\* the hello, echo and greet routes (part_001:62-91)
exampleJson(kind) == Response(200, kind, "", "", NoData)

\* the 404 handler (part_001:94-99)
notFoundJson == Response(404, "notFound", "Not Found", "Route not found", NoData)

\* the error handler (part_001:102-108)
errorHandler(err) ==
    Response(500, "errorHandler", "Internal Server Error",
             IF env.nodeEnv = "development" THEN err.message ELSE "Something went wrong",
             NoData)

\* the catch block of the dashboard route (part_001:52-58)
dashboardCatch(error) ==
    Response(500, "dashboard", "Failed to fetch dashboard data", error.message, NoData)

\* res.json(dashboardData) (part_001:43-51)
dashboardJson(weatherData, recyclingInfo) ==
    [Response(200, "dashboard", "", "", weatherData) EXCEPT
        !.recycling = [isRecyclingWeek |-> recyclingInfo.isRecyclingWeek,
                       message |-> recyclingInfo.message]]

\* validateApiKey's response as the client sees it
authJson(rejection) == Response(rejection.status, "auth", rejection.error, "", NoData)

(***************************************************************************)
(* The middleware stack in registration order (part_001:12-108).  A        *)
(* request visits the layers in order; a layer that does not match is      *)
(* skipped, a middleware calls next() or answers, a route answers, and an  *)
(* error passed to next(err) goes to the error handler.                    *)
(***************************************************************************)
\* Mutant: the middleware is registered after the dashboard route.
Layers_AuthAfterDashboard ==
    <<"express.json", "health", "dashboard", "validateApiKey", "hello", "echo", "greet",
      "notFound", "errorHandler">>

\* Mutant: the middleware is registered before the health route.
Layers_AuthBeforeHealth ==
    <<"express.json", "validateApiKey", "health", "dashboard", "hello", "echo", "greet",
      "notFound", "errorHandler">>

Layers ==
    <<"express.json", "health", "validateApiKey", "dashboard", "hello", "echo", "greet",
      "notFound", "errorHandler">>

LayerMatches(layer, req) ==
    CASE layer = "express.json" -> TRUE
      [] layer = "health" -> req.method = "GET" /\ req.path = "/api/health"
      [] layer = "validateApiKey" -> TRUE
      [] layer = "dashboard" -> req.method = "GET" /\ req.path = "/api/dashboard"
      [] layer = "hello" -> req.method = "GET" /\ req.path = "/api/hello"
      [] layer = "echo" -> req.method = "POST" /\ req.path = "/api/echo"
      [] layer = "greet" -> req.method = "GET" /\ req.path = "/api/greet/sam"
      [] layer = "notFound" -> TRUE
      [] layer = "errorHandler" -> FALSE

NoResponse == Response(0, "none", "", "", NoData)

\* The synchronous pass of a request through the stack from layer i on: the
\* layers that ran, the one that ended the pass, and its response.  The
\* dashboard route is asynchronous: its response is produced by its own steps.
RECURSIVE Dispatch(_, _, _)
Dispatch(req, i, ran) ==
    IF i > Len(Layers) THEN [ran |-> ran, handler |-> "none", response |-> notFoundJson]
    ELSE LET layer == Layers[i] IN
         IF ~LayerMatches(layer, req) THEN Dispatch(req, i + 1, ran)
         ELSE IF layer = "express.json"
         THEN IF req.body = "malformed"
              THEN [ran |-> ran \o <<layer, "errorHandler">>, handler |-> "errorHandler",
                    response |-> errorHandler(Error("Unexpected token in JSON"))]
              ELSE Dispatch(req, i + 1, Append(ran, layer))
         ELSE IF layer = "validateApiKey"
         THEN LET verdict == validateApiKey(req.authorization, apiKeyEnv) IN
              IF verdict.nextCalls = 1 THEN Dispatch(req, i + 1, Append(ran, layer))
              ELSE [ran |-> Append(ran, layer), handler |-> layer,
                    response |-> authJson(verdict)]
         ELSE [ran |-> Append(ran, layer), handler |-> layer,
               response |-> CASE layer = "health" -> healthJson
                              [] layer = "dashboard" -> NoResponse
                              [] layer = "notFound" -> notFoundJson
                              [] OTHER -> exampleJson(layer)]

(***************************************************************************)
(* The provider's answer to `fetch(url)` and getWeatherDataFromAPI's use   *)
(* of it (weatherService.ts:223-252).  A payload is known by the required  *)
(* fields it has and the weather data that is computed from it.            *)
(***************************************************************************)
RequiredFields == {"current", "daily"}

\* a success with either data, a non-success status (whatever the body), a
\* success without the daily field, and a fetch that rejects
Answers ==
    [rejects : {FALSE}, ok : BOOLEAN, fields : {RequiredFields}, value : {"v1"}]
    \cup [rejects : {FALSE}, ok : {TRUE}, fields : {RequiredFields}, value : {"v2"}]
    \cup [rejects : {FALSE}, ok : {TRUE}, fields : {{"current"}}, value : {"v1"}]
    \cup [rejects : {TRUE}, ok : {FALSE}, fields : {{}}, value : {"v1"}]

NoAnswer == [rejects |-> FALSE, ok |-> FALSE, fields |-> {}, value |-> Null]

\* the type guard imported from ../types
isOpenWeatherResponse(data) == RequiredFields \subseteq data.fields

\* Mutant: the status of the response is not looked at.
getWeatherDataFromAPI_AnyStatus(answer) ==
    IF answer.rejects THEN [error |-> Error("fetch failed"), result |-> Null]
    ELSE IF ~isOpenWeatherResponse(answer)
    THEN [error |-> Error("Invalid response format from OpenWeatherMap API"), result |-> Null]
    ELSE [error |-> NoError, result |-> answer.value]

getWeatherDataFromAPI(answer) ==
    IF answer.rejects THEN [error |-> Error("fetch failed"), result |-> Null]
    ELSE IF ~answer.ok
    THEN [error |-> Error("OpenWeatherMap API error: status"), result |-> Null]
    ELSE IF ~isOpenWeatherResponse(answer)
    THEN [error |-> Error("Invalid response format from OpenWeatherMap API"), result |-> Null]
    ELSE [error |-> NoError, result |-> answer.value]

\* Mutant: a call that misses joins a request already in flight for the key.
fetchOnMiss_SingleFlight(inFlight) == IF inFlight > 0 THEN 0 ELSE 1

\* The upstream requests a call issues after missing the cache, given how many
\* are in flight for the key already (weatherService.ts:280: always its own).
fetchOnMiss(inFlight) == 1

\* `weather-${lat}-${lon}` for the configured coordinates
cacheKey == "k1"

(***************************************************************************)
(* Bookkeeping of the application.  A call record holds the locals of a    *)
(* pending getWeatherData call (result, now) and, as history, what the     *)
(* call saw and did.                                                       *)
(***************************************************************************)
NoOk == [done |-> FALSE, at |-> 0]

\* History taken when a call starts: the value the latest cache.set of this
\* process stored, if that was less than ttl ago (Null otherwise) ...
SetSeen == LocalOnlyGet(lastSet[cacheKey], clock)

\* ... and whether the latest call that returned data completed less than ttl
\* ago ("recent"), longer ago ("expired"), or there was none.
OkSeen ==
    IF ~lastOk.done THEN "none"
    ELSE IF clock < lastOk.at + ttl THEN "recent"
    ELSE "expired"

NoCall ==
    [started |-> FALSE, req |-> NoRequest, ran |-> <<>>,
     setSeen |-> Null, okSeen |-> "none", cacheAccessed |-> FALSE,
     tier |-> "none", durable |-> "unasked", fetches |-> 0, overlapped |-> FALSE,
     answer |-> NoAnswer, result |-> Null, now |-> 0, sets |-> 0]

NoOut ==
    [sent |-> FALSE, proc |-> "none", req |-> NoRequest, ran |-> <<>>,
     response |-> NoResponse, call |-> NoCall, at |-> 0]

Sent(p, req, ran, response, c) ==
    [sent |-> TRUE, proc |-> p, req |-> req, ran |-> ran,
     response |-> response, call |-> c, at |-> clock]

AppIdle ==
    /\ env = [nodeEnv |-> "production", openWeatherKey |-> TRUE, coordinatesOk |-> TRUE,
             recycling |-> NoConfig]
    /\ apc = [p \in Procs |-> "idle"]
    /\ call = [p \in Procs |-> NoCall]
    /\ out = NoOut
    /\ lastOk = NoOk

AppInit ==
    /\ env \in Envs
    /\ apc = [p \in Procs |-> "idle"]
    /\ call = [p \in Procs |-> NoCall]
    /\ out = NoOut
    /\ lastOk = NoOk

\* The dashboard route answers with the weather data (part_001:40-51), the
\* call being over.
RespondData(p, c, data) ==
    /\ out' = Sent(p, c.req, c.ran,
                    dashboardJson(data, getRecyclingInfo(rcCall.date, rcCall.hour, NoConfig)),
                    c)
    /\ lastOk' = [done |-> TRUE, at |-> clock]
    /\ apc' = [apc EXCEPT ![p] = "idle"]
    /\ call' = [call EXCEPT ![p] = NoCall]

\* The call missed both tiers: getWeatherDataFromAPI issues `fetch(url)` and
\* the call is suspended on it (weatherService.ts:280, 223).
IssueFetch(p, c) ==
    LET inFlight == Cardinality({q \in Procs : apc[q] = "fetch"}) IN
    /\ apc' = [apc EXCEPT ![p] = "fetch"]
    /\ call' = [q \in Procs |->
                   IF q = p
                   THEN [c EXCEPT !.fetches = c.fetches + fetchOnMiss(inFlight),
                                  !.overlapped = inFlight > 0]
                   ELSE IF apc[q] = "fetch" THEN [call[q] EXCEPT !.overlapped = TRUE]
                   ELSE call[q]]
    /\ out' = NoOut
    /\ UNCHANGED lastOk

(***************************************************************************)
(* A request arrives and runs until it is answered or its handler is       *)
(* suspended.  For the dashboard route (part_001:26-59) that is: read the  *)
(* coordinates, call getWeatherData (weatherService.ts:266-276), whose     *)
(* cache.get asks the local tier and, on a miss, the durable one.          *)
(***************************************************************************)
HandleRequest(p, req) ==
    /\ apc[p] = "idle"
    /\ ~out.sent
    /\ LET pass == Dispatch(req, 1, <<>>)
           c0 == [NoCall EXCEPT !.req = req, !.ran = pass.ran]
           c1 == [c0 EXCEPT !.started = TRUE, !.setSeen = SetSeen, !.okSeen = OkSeen]
           c2 == [c1 EXCEPT !.cacheAccessed = TRUE]
           local == getLocalCache(cacheKey)
       IN
       IF pass.handler # "dashboard"
       THEN /\ out' = Sent(p, req, pass.ran, pass.response, NoCall)
            /\ UNCHANGED <<apc, call, lastOk>>
       ELSE IF ~env.coordinatesOk
       THEN /\ out' = Sent(p, req, pass.ran,
                           dashboardCatch(Error("Invalid coordinates")), c0)
            /\ UNCHANGED <<apc, call, lastOk>>
       ELSE IF ~env.openWeatherKey
       THEN /\ out' = Sent(p, req, pass.ran,
                           dashboardCatch(Error("OPENWEATHER_API_KEY environment variable is not set")),
                           c1)
            /\ UNCHANGED <<apc, call, lastOk>>
       ELSE IF local # Null
       THEN RespondData(p, [c2 EXCEPT !.tier = "local"], local)
       ELSE \E o \in GetStoreOutcomes :
            IF o = "throws"
            THEN IssueFetch(p, [c2 EXCEPT !.durable = "failed"])
            ELSE /\ apc' = [apc EXCEPT ![p] = "storeGet"]
                 /\ call' = [call EXCEPT ![p] = c2]
                 /\ out' = NoOut
                 /\ UNCHANGED lastOk
    /\ UNCHANGED <<clock, memoryCache, blobs, durableDown, lastSet, env>>
    /\ UNCHANGED notAppVars

\* cache.get: store.get resolves; a fresh envelope is returned to the client,
\* anything else is a miss (weatherService.ts:327-347, 275-278).
CacheGetResolve(p) ==
    /\ apc[p] = "storeGet"
    /\ ~out.sent
    /\ ~durableDown
    /\ LET cachedData == getNetlifyResult(JsonParse(blobs[cacheKey])) IN
       IF cachedData # Null
       THEN RespondData(p, [call[p] EXCEPT !.tier = "netlify", !.durable = "fresh"],
                        cachedData)
       ELSE IssueFetch(p, [call[p] EXCEPT !.durable = "stale"])
    /\ UNCHANGED <<clock, memoryCache, blobs, durableDown, lastSet, env>>
    /\ UNCHANGED notAppVars

\* cache.get: store.get rejects, which is a miss (weatherService.ts:322-325).
CacheGetReject(p) ==
    /\ apc[p] = "storeGet"
    /\ ~out.sent
    /\ IssueFetch(p, [call[p] EXCEPT !.durable = "failed"])
    /\ UNCHANGED <<clock, memoryCache, blobs, durableDown, lastSet, env>>
    /\ UNCHANGED notAppVars

(***************************************************************************)
(* The provider answers the pending fetch.  An error leaves getWeatherData *)
(* and is caught by the route; otherwise cache.set reads the clock, writes *)
(* the local tier and starts the durable write (weatherService.ts:280-283, *)
(* 400-404, 350-360).                                                      *)
(***************************************************************************)
FetchAnswers(p, answer) ==
    /\ apc[p] = "fetch"
    /\ ~out.sent
    /\ LET fromAPI == getWeatherDataFromAPI(answer)
           c == [call[p] EXCEPT !.answer = answer]
           now == clock
           set == [c EXCEPT !.result = fromAPI.result, !.now = now, !.sets = c.sets + 1]
       IN
       IF fromAPI.error.thrown
       THEN /\ out' = Sent(p, c.req, c.ran, dashboardCatch(fromAPI.error), c)
            /\ apc' = [apc EXCEPT ![p] = "idle"]
            /\ call' = [call EXCEPT ![p] = NoCall]
            /\ UNCHANGED <<memoryCache, lastSet, lastOk>>
       ELSE /\ memoryCache' = setLocalCache(cacheKey, fromAPI.result, now)
            /\ lastSet' = [lastSet EXCEPT ![cacheKey] =
                              [called |-> TRUE, at |-> now, value |-> fromAPI.result]]
            /\ \E o \in GetStoreOutcomes :
                 IF o = "throws"
                 THEN RespondData(p, set, fromAPI.result)
                 ELSE /\ apc' = [apc EXCEPT ![p] = "setJSON"]
                      /\ call' = [call EXCEPT ![p] = set]
                      /\ out' = NoOut
                      /\ UNCHANGED lastOk
    /\ UNCHANGED <<clock, blobs, durableDown, env>>
    /\ UNCHANGED notAppVars

\* cache.set: store.setJSON resolves, getWeatherData returns the result.
CacheSetResolve(p) ==
    /\ apc[p] = "setJSON"
    /\ ~out.sent
    /\ ~durableDown
    /\ blobs' = [blobs EXCEPT ![cacheKey] = setNetlifyDoc(call[p].result, call[p].now)]
    /\ RespondData(p, call[p], call[p].result)
    /\ UNCHANGED <<clock, memoryCache, durableDown, lastSet, env>>
    /\ UNCHANGED notAppVars

\* cache.set: store.setJSON rejects, which cache.set swallows.
CacheSetReject(p) ==
    /\ apc[p] = "setJSON"
    /\ ~out.sent
    /\ RespondData(p, call[p], call[p].result)
    /\ UNCHANGED <<clock, memoryCache, blobs, durableDown, lastSet, env>>
    /\ UNCHANGED notAppVars

\* Time passes.
AppTick ==
    /\ clock < MaxAppClock
    /\ ~out.sent
    /\ clock' = clock + 1
    /\ out' = NoOut
    /\ UNCHANGED <<memoryCache, blobs, durableDown, lastSet, env, apc, call, lastOk>>
    /\ UNCHANGED notAppVars

\* Another instance of the function stores its own result under the key.
OtherInstanceSet(value) ==
    /\ ~out.sent
    /\ blobs' = [blobs EXCEPT ![cacheKey] = setNetlifyDoc(value, clock)]
    /\ out' = NoOut
    /\ UNCHANGED <<clock, memoryCache, durableDown, lastSet, env, apc, call, lastOk>>
    /\ UNCHANGED notAppVars

\* The response leaves the function: the client has it before anything else
\* is observed.
Deliver ==
    /\ out.sent
    /\ out' = NoOut
    /\ UNCHANGED <<clock, memoryCache, blobs, durableDown, lastSet, env, apc, call, lastOk>>
    /\ UNCHANGED notAppVars

\* The requests a client of the dashboard sends: authenticated GET /api/dashboard
DashboardRequest ==
    [method |-> "GET", path |-> "/api/dashboard",
     authorization |-> Str(<<"Bearer", " ", "k">>), body |-> "none"]

\* One client sending any request, one after the other.
AppNext ==
    \/ \E req \in Requests : HandleRequest("r1", req)
    \/ CacheGetResolve("r1")
    \/ CacheGetReject("r1")
    \/ \E answer \in Answers : FetchAnswers("r1", answer)
    \/ CacheSetResolve("r1")
    \/ CacheSetReject("r1")
    \/ AppTick
    \/ Deliver

\* A new request is given the first free name.
FreeSlot == IF apc["r1"] = "idle" THEN "r1" ELSE "r2"

\* Concurrent dashboard requests, with another instance writing to the store.
WeatherNext ==
    \/ HandleRequest(FreeSlot, DashboardRequest)
    \/ \E p \in Procs : CacheGetResolve(p)
    \/ \E p \in Procs : CacheGetReject(p)
    \/ \E p \in Procs, answer \in Answers : FetchAnswers(p, answer)
    \/ \E p \in Procs : CacheSetResolve(p)
    \/ \E p \in Procs : CacheSetReject(p)
    \/ AppTick
    \/ OtherInstanceSet("v2")
    \/ Deliver

(***************************************************************************)
(* Claims about the application.                                           *)
(***************************************************************************)
\* the handlers registered after app.use(validateApiKey)
Protected == {"dashboard", "hello", "echo", "greet", "notFound"}

\* API_KEY is configured and the request's bearer token equals it
Authenticated(req) ==
    /\ apiKeyEnv.defined /\ apiKeyEnv.chars # <<>>
    /\ req.authorization.defined
    /\ req.authorization.chars = <<"Bearer", " ">> \o apiKeyEnv.chars

RanProtected(ran) == \E i \in 1..Len(ran) : ran[i] \in Protected

AuthErrors ==
    { <<500, "Server configuration error: API_KEY not set">>,
      <<401, "Unauthorized: API key required">>,
      <<401, "Unauthorized: Invalid authorization format">>,
      <<403, "Forbidden: Invalid API key">> }

\* No protected handler runs, no getWeatherData call starts or is pending, and
\* so no cache access and no upstream request happens, for an unauthenticated
\* request.
OnlyAuthenticatedGetThrough ==
    /\ (out.sent /\ (RanProtected(out.ran) \/ out.call.started
                        \/ out.call.cacheAccessed \/ out.call.fetches > 0))
          => Authenticated(out.req)
    /\ \A p \in Procs : apc[p] # "idle" => Authenticated(call[p].req)

\* C11 as stated: ... and every unauthenticated request to an unmatched route
\* is answered with the auth error.
C11_AuthShortCircuits_AsStated ==
    /\ OnlyAuthenticatedGetThrough
    /\ (out.sent /\ ~Authenticated(out.req) /\ out.req.path = "/api/nope") =>
          <<out.response.status, out.response.error>> \in AuthErrors

\* C11: no handler registered after the auth middleware (dashboard, hello,
\* echo, greet, the 404 fallback) runs unless API_KEY is configured and the
\* bearer token equals it; an unauthenticated request causes no cache access
\* and no upstream call; and an unauthenticated request to an unmatched route
\* is never answered 404: it gets the auth error, or, when express.json()
\* cannot parse its body, the error handler's 500 before the middleware runs.
C11_AuthShortCircuits ==
    /\ OnlyAuthenticatedGetThrough
    /\ (out.sent /\ ~Authenticated(out.req) /\ out.req.path = "/api/nope") =>
          IF out.req.body = "malformed"
          THEN /\ out.response.status = 500
               /\ out.response.error = "Internal Server Error"
          ELSE <<out.response.status, out.response.error>> \in AuthErrors

\* A request to an unmatched route with a wrong token is answered 403, and one
\* with the right token is answered by the 404 handler.
C11_Witness ==
    /\ out.sent
    /\ out.req.path = "/api/nope" /\ out.req.body = "none"
    /\ apiKeyEnv = Str(<<"k">>)
    /\ out.req.authorization = Str(<<"Bearer", " ", "x">>)
    /\ out.response.status = 403
    /\ out.ran = <<"express.json", "validateApiKey">>

(***************************************************************************)
(* C12 as stated: every GET /api/health is answered {status: "ok"} by the  *)
(* health route, whatever the Authorization header and API_KEY; the auth   *)
(* middleware does not run for it.                                         *)
(***************************************************************************)
IsHealthCheck(req) == req.method = "GET" /\ req.path = "/api/health"

C12_HealthAlwaysOpen_AsStated ==
    (out.sent /\ IsHealthCheck(out.req)) =>
        /\ out.response.status = 200 /\ out.response.kind = "health"
        /\ \A i \in 1..Len(out.ran) : out.ran[i] # "validateApiKey"

\* C12: every GET /api/health whose body express.json() accepts is answered
\* {status: "ok"} by the health route, whatever the Authorization header and
\* API_KEY; the auth middleware never runs for a GET /api/health.
C12_HealthAlwaysOpen ==
    (out.sent /\ IsHealthCheck(out.req)) =>
        /\ out.req.body # "malformed" =>
              (out.response.status = 200 /\ out.response.kind = "health")
        /\ \A i \in 1..Len(out.ran) : out.ran[i] # "validateApiKey"

\* A health check with a wrong token, on a server without API_KEY, is answered.
C12_Witness ==
    /\ out.sent /\ IsHealthCheck(out.req)
    /\ out.req.body = "none"
    /\ apiKeyEnv = Undefined
    /\ out.req.authorization = Str(<<"Bearer", " ", "x">>)
    /\ out.response = healthJson

(***************************************************************************)
(* C18.  In production (NODE_ENV is not "development") no response body    *)
(* carries the text of an internal error.                                  *)
(***************************************************************************)
InternalErrorTexts ==
    { "Unexpected token in JSON",
      "Invalid coordinates",
      "OPENWEATHER_API_KEY environment variable is not set",
      "fetch failed",
      "OpenWeatherMap API error: status",
      "Invalid response format from OpenWeatherMap API" }

C18_NoInternalTextInProduction ==
    (out.sent /\ env.nodeEnv # "development") =>
        out.response.message \notin InternalErrorTexts

(***************************************************************************)
(* C13 as stated.  After a getWeatherData call that returned data at time  *)
(* T, a later call that starts before T + ttl makes no upstream request    *)
(* and succeeds; one that starts at or after T + ttl and gets no fresh     *)
(* entry from the durable tier contacts the provider.                      *)
(***************************************************************************)
C13_Memoized_AsStated ==
    (out.sent /\ out.call.cacheAccessed) =>
        /\ out.call.okSeen = "recent" =>
              (out.call.fetches = 0 /\ out.response.status = 200)
        /\ (out.call.okSeen = "expired" /\ out.call.durable # "fresh") =>
              out.call.fetches = 1

(***************************************************************************)
(* C13.  The window runs from the cache.set that stored a fetched result,  *)
(* not from the completion of a call: a call that starts less than ttl     *)
(* after the latest cache.set of the process returns the data of that set  *)
(* and makes no upstream request, whatever the durable tier does; a call   *)
(* that starts when that set is ttl old or older (or there was none)       *)
(* contacts the provider unless the durable tier gives it a fresh entry.   *)
(***************************************************************************)
C13_Memoized ==
    (out.sent /\ out.call.cacheAccessed) =>
        /\ out.call.setSeen # Null =>
              /\ out.call.fetches = 0
              /\ out.call.tier = "local"
              /\ out.response.status = 200
              /\ out.response.data = out.call.setSeen
        /\ (out.call.setSeen = Null /\ out.call.durable # "fresh") =>
              out.call.fetches = 1

\* A call is served the stored data from the local tier, a tick after the set
\* and while the store holds something else.
C13_Witness ==
    /\ out.sent /\ out.response.status = 200
    /\ out.call.setSeen = "v1" /\ out.call.fetches = 0
    /\ lastSet[cacheKey].at < clock
    /\ blobs[cacheKey] = setNetlifyDoc("v2", clock)

(***************************************************************************)
(* C15.  When the provider answers with a non-success status or with a     *)
(* payload that lacks a required field, the call has issued exactly one    *)
(* request, has written to neither tier (not earlier, and not in the step  *)
(* that fails), and the dashboard route answers 500.                       *)
(***************************************************************************)
BadAnswer(answer) ==
    /\ answer # NoAnswer
    /\ ~answer.rejects
    /\ ~answer.ok \/ ~(RequiredFields \subseteq answer.fields)

C15_UpstreamFailureSurfaced ==
    [][ (out'.sent /\ BadAnswer(out'.call.answer)) =>
            /\ out'.response.status = 500
            /\ out'.response.data = NoData
            /\ out'.call.fetches = 1
            /\ out'.call.sets = 0
            /\ memoryCache' = memoryCache
            /\ blobs' = blobs
            /\ lastSet' = lastSet ]_vars

\* The provider answers 401 to a call that had found an expired entry.
C15_Witness ==
    /\ out.sent /\ out.response.status = 500
    /\ BadAnswer(out.call.answer) /\ ~out.call.answer.ok
    /\ out.call.fetches = 1
    /\ lastSet[cacheKey].called
    /\ memoryCache[cacheKey] = Cached(lastSet[cacheKey].value, lastSet[cacheKey].at)

(***************************************************************************)
(* C17.  No single flight: a call that is not served by a tier issues its  *)
(* own upstream request, also while a request of another call for the same *)
(* key is in flight; it never waits for the other call's result.           *)
(***************************************************************************)
C17_NoSingleFlight ==
    /\ \A p \in Procs : apc[p] = "fetch" => call[p].fetches = 1
    /\ (out.sent /\ out.call.cacheAccessed /\ out.call.tier = "none") =>
          out.call.fetches = 1

\* Two calls missed and had their requests in flight at the same time; one has
\* stored its result and returned it, the other has stored its own and is
\* about to return.
C17_Witness ==
    /\ out.sent /\ out.response.status = 200
    /\ out.call.overlapped /\ out.call.fetches = 1 /\ out.call.sets = 1
    /\ \E q \in Procs :
          /\ q # out.proc
          /\ apc[q] = "setJSON"
          /\ call[q].overlapped /\ call[q].fetches = 1 /\ call[q].sets = 1
          /\ call[q].result # out.response.data

(***************************************************************************)
(* C19.  Every call that reaches the upstream request completes.           *)
(***************************************************************************)
C19_RequestCompletes ==
    \A p \in Procs : (apc[p] = "fetch") ~> (apc[p] = "idle")

(***************************************************************************)
(* The dashboard's recycling part.  The deployment sets the RECYCLING_*    *)
(* variables (env.recycling) and the route is asked at a local moment      *)
(* (rcCall.date, rcCall.hour) of the week around the default reference.    *)
(***************************************************************************)
DashboardDates == {<<2025, 11, 16>>, <<2025, 11, 18>>, <<2025, 11, 20>>, <<2025, 11, 25>>}

\* The schedules a deployment may set: nothing, or one of the four variables.
Schedules ==
    { NoConfig,
      RecyclingConfig(<<TRUE, 4>>, <<FALSE, 12>>, <<FALSE, DefaultReferenceDate>>, <<FALSE, TRUE>>),
      RecyclingConfig(<<FALSE, 2>>, <<TRUE, 23>>, <<FALSE, DefaultReferenceDate>>, <<FALSE, TRUE>>),
      RecyclingConfig(<<FALSE, 2>>, <<FALSE, 12>>, <<TRUE, <<2025, 11, 25>> >>, <<FALSE, TRUE>>),
      RecyclingConfig(<<FALSE, 2>>, <<FALSE, 12>>, <<FALSE, DefaultReferenceDate>>, <<TRUE, FALSE>>) }

DashboardInit ==
    /\ env \in [nodeEnv : {"production"}, openWeatherKey : {TRUE}, coordinatesOk : {TRUE},
                recycling : Schedules]
    /\ apc = [p \in Procs |-> "idle"]
    /\ call = [p \in Procs |-> NoCall]
    /\ out = NoOut
    /\ lastOk = NoOk
    /\ apiKeyEnv = Str(<<"k">>)
    /\ request = [authorization |-> Undefined, validated |-> TRUE]
    /\ authOut = NotValidated
    /\ hourCycle \in HourCycles
    /\ rcCall \in [date : DashboardDates, hour : {11, 13}, config : {NoConfig}]
    /\ rcResult = NoResult
    /\ rcPrev = NoPrev

\* One client asks for the dashboard, one request at a time.
DashboardNext ==
    \/ HandleRequest("r1", DashboardRequest)
    \/ CacheGetResolve("r1")
    \/ CacheGetReject("r1")
    \/ \E answer \in Answers : FetchAnswers("r1", answer)
    \/ CacheSetResolve("r1")
    \/ CacheSetReject("r1")
    \/ Deliver

\* what the dashboard shows of a RecyclingInfo
Shown(info) == [isRecyclingWeek |-> info.isRecyclingWeek, message |-> info.message]

\* C21: every dashboard answer reports the isRecyclingWeek and message that
\* getRecyclingInfo yields for the schedule set through the RECYCLING_*
\* variables (defaults only for the values that are not set).
C21_ConfiguredScheduleShown ==
    (out.sent /\ out.response.status = 200 /\ out.response.kind = "dashboard")
        => out.response.recycling
             = Shown(getRecyclingInfo(rcCall.date, rcCall.hour, env.recycling))

(***************************************************************************)
(* The holder of the configured secret.                                    *)
(***************************************************************************)
\* The header "Bearer", one space, then the secret.
BearerHeader(secret) == Str(<<"Bearer", " ">> \o secret.chars)

RecyclingMessages == {"This week is recycling pickup", "Next week is recycling pickup"}

TrashMessages == {"This week is trash only", "Next week is trash only"}

Consistent(result) ==
    /\ result.message \in RecyclingMessages \cup TrashMessages
    /\ result.message \in RecyclingMessages <=> result.isRecyclingWeek

\* C23: getRecyclingInfo's message is one of the four strings, and it ends in
\* "recycling pickup" exactly when the returned isRecyclingWeek is true.
C23_MessageMatchesFlag ==
    /\ rcResult # NoResult => Consistent(rcResult)
    /\ rcPrev.called => Consistent(rcPrev.result)

\* Two calls a week apart: one answered "recycling pickup" with the flag set,
\* the other "trash only" with the flag clear, one of them about next week.
C23_Witness ==
    /\ rcPrev.called
    /\ rcResult.isRecyclingWeek /\ rcResult.message = "Next week is recycling pickup"
    /\ ~rcPrev.result.isRecyclingWeek /\ rcPrev.result.message = "Next week is trash only"

\* C24: the target occurrence falls on the active weekday, 0 to 7 days after
\* the local date: 0 days away only on the active day before the cutoff hour,
\* 7 days away only on the active day at or after the cutoff hour, and 1 to 6
\* days away on every other weekday, month and year ends included.
C24_TargetDay ==
    rcResult # NoResult =>
        LET away == rcResult.targetDayUTC - DayNumber(rcCall.date)
            onActiveDay == Weekday(rcCall.date) = CfgDay(rcCall.config)
            pastCutoff == rcCall.hour >= CfgCutoff(rcCall.config)
        IN  /\ getUTCDay(rcResult.targetDayUTC) = CfgDay(rcCall.config)
            /\ away \in 0..7
            /\ away = 0 <=> (onActiveDay /\ ~pastCutoff)
            /\ away = 7 <=> (onActiveDay /\ pastCutoff)
            /\ ~onActiveDay => away \in 1..6

(***************************************************************************)
(* What a get and a set leave in the two tiers.                            *)
(***************************************************************************)
\* A step of a Cache.get: it starts the durable read or it returns.
GetStep ==
    \/ \E p \in Procs : pc[p] = "idle" /\ pc'[p] = "storeGet"
    \/ resp'.op = "get"

\* C25: Cache.get never changes the cache: whether it hits the local tier,
\* finds an expired or missing entry, or is served from the durable tier, it
\* leaves the local map and the durable store exactly as they were.
C25_GetChangesNothing ==
    [][GetStep => (memoryCache' = memoryCache /\ blobs' = blobs)]_vars

\* A get was served from the durable tier while the local entry, expired, is
\* still in the map.
C25_Witness ==
    /\ resp.op = "get" /\ resp.src = "netlify"
    /\ memoryCache[resp.key] # JsUndefined
    /\ getLocalCache(resp.key) = Null

\* The set that has just completed its durable write is the latest set invoked
\* for its key, so the local entry is the one it wrote.
LatestSetCompleted ==
    /\ resp.op = "set" /\ ~resp.failed
    /\ lastSet[resp.key] = [called |-> TRUE, at |-> resp.calledAt, value |-> resp.value]

\* C26: a single Cache.set records the same cachedAt, the clock value read when
\* the set started, in the local entry and in the durable envelope, even when
\* the durable write completes later; so both entries are fresh or expired
\* together.
C26_OneTimestampPerSet ==
    LatestSetCompleted =>
        LET local == memoryCache[resp.key]
            durable == JsonParse(blobs[resp.key])
        IN  /\ local.cachedAtType = "number" /\ durable.cachedAtType = "number"
            /\ local.cachedAt = lastSet[resp.key].at
            /\ durable.cachedAt = local.cachedAt
            /\ durable.value = local.value
            /\ getLocalCache(resp.key) = getNetlifyResult(durable)

\* The durable write of a set completed after the clock had moved on, and the
\* entry is still fresh.
C26_Witness ==
    /\ LatestSetCompleted
    /\ resp.checkedAt > resp.calledAt
    /\ getLocalCache(resp.key) = resp.value

\* C27: for every request validateApiKey does exactly one of two things: it
\* sends a single error response (500, 401 or 403) and does not call next, or
\* it calls next exactly once and sends no response itself.
C27_RespondsOrProceeds ==
    request.validated =>
        \/ authOut.sent = 1 /\ authOut.nextCalls = 0 /\ authOut.status \in {500, 401, 403}
        \/ authOut.sent = 0 /\ authOut.nextCalls = 1 /\ authOut.status = 0

\* A well-formed bearer header with a wrong token was answered 403 and the
\* request went no further.
C27_Witness ==
    /\ request.validated
    /\ ~Falsy(apiKeyEnv) /\ ~Falsy(request.authorization)
    /\ Len(Split(request.authorization.chars)) = 2
    /\ authOut.status = 403 /\ authOut.sent = 1 /\ authOut.nextCalls = 0

(***************************************************************************)
(* Specifications: Spec is the cache, SpecRecycling the calculator,        *)
(* SpecAuth the middleware.                                                *)
(***************************************************************************)
CacheIdle ==
    /\ clock = 0
    /\ memoryCache = [k \in Keys |-> JsUndefined]
    /\ blobs = [k \in Keys |-> NoBlob]
    /\ durableDown = FALSE
    /\ pc = [p \in Procs |-> "idle"]
    /\ frame = [p \in Procs |-> NoFrame]
    /\ resp = NoResp
    /\ lastSet = [k \in Keys |-> NoSet]

RecyclingIdle ==
    /\ hourCycle = "h23"
    /\ rcCall = [date |-> DefaultReferenceDate, hour |-> 0,
                 config |-> RecyclingConfig(<<FALSE, 2>>, <<FALSE, 12>>,
                                            <<FALSE, DefaultReferenceDate>>, <<FALSE, TRUE>>)]
    /\ rcResult = NoResult
    /\ rcPrev = NoPrev

AuthIdle ==
    /\ apiKeyEnv = Undefined
    /\ request = [authorization |-> Undefined, validated |-> TRUE]
    /\ authOut = NotValidated

ForecastIdle ==
    /\ weatherIds = <<>>
    /\ weather = NoWeather

Init == CacheInit /\ RecyclingIdle /\ AuthIdle /\ ForecastIdle /\ AppIdle

Next == CacheNext

Spec == Init /\ [][Next]_vars

InitRecycling == RecyclingInit /\ CacheIdle /\ AuthIdle /\ ForecastIdle /\ AppIdle

NextRecycling == RecyclingNext

SpecRecycling == InitRecycling /\ [][NextRecycling]_vars

InitRecyclingRange == RecyclingRangeInit /\ CacheIdle /\ AuthIdle /\ ForecastIdle /\ AppIdle

SpecRecyclingRange == InitRecyclingRange /\ [][NextRecycling]_vars

InitAuth == AuthInit /\ CacheIdle /\ RecyclingIdle /\ ForecastIdle /\ AppIdle

NextAuth == AuthNext

SpecAuth == InitAuth /\ [][NextAuth]_vars

InitForecast == ForecastInit /\ CacheIdle /\ RecyclingIdle /\ AuthIdle /\ AppIdle

NextForecast == ForecastNext

SpecForecast == InitForecast /\ [][NextForecast]_vars

AuthConfigured ==
    /\ apiKeyEnv \in AppApiKeys
    /\ request = [authorization |-> Undefined, validated |-> TRUE]
    /\ authOut = NotValidated

InitApp == CacheInit /\ AppInit /\ AuthConfigured /\ RecyclingIdle /\ ForecastIdle

NextApp == AppNext

SpecApp == InitApp /\ [][NextApp]_vars

WeatherInit ==
    /\ env = [nodeEnv |-> "production", openWeatherKey |-> TRUE, coordinatesOk |-> TRUE,
             recycling |-> NoConfig]
    /\ apc = [p \in Procs |-> "idle"]
    /\ call = [p \in Procs |-> NoCall]
    /\ out = NoOut
    /\ lastOk = NoOk
    /\ apiKeyEnv = Str(<<"k">>)
    /\ request = [authorization |-> Undefined, validated |-> TRUE]
    /\ authOut = NotValidated

InitWeather == CacheIdle /\ WeatherInit /\ RecyclingIdle /\ ForecastIdle

NextWeather == WeatherNext

SpecWeather == InitWeather /\ [][NextWeather]_vars

\* The runtime runs every continuation that is ready and the store answers
\* every operation (one way or the other); nothing makes the provider answer.
WeatherFairness ==
    /\ WF_vars(Deliver)
    /\ \A p \in Procs : WF_vars(CacheGetResolve(p) \/ CacheGetReject(p))
    /\ \A p \in Procs : WF_vars(CacheSetResolve(p) \/ CacheSetReject(p))

SpecWeatherLive == InitWeather /\ [][NextWeather]_vars /\ WeatherFairness

InitDashboard == CacheIdle /\ DashboardInit /\ ForecastIdle

NextDashboard == DashboardNext

SpecDashboard == InitDashboard /\ [][NextDashboard]_vars

====
